---- MODULE Spec2Model ----
(***************************************************************************)
(* Model of MilightIBox (milight_ibox2/milight_ibox2_client.py): the UDP   *)
(* client of the Milight iBox2 bridge.  The object's fields are the record *)
(* `self`; a call in progress is the program counter `pc`, the loop index  *)
(* `retry` and the call's locals.  One step of a retry loop is one send    *)
(* followed by one blocking receive, whose outcome is the step's input.    *)
(* Byte strings are sequences of integers 0..255, indexed from 0 by At.    *)
(***************************************************************************)
EXTENDS Integers, Sequences, FiniteSets, TLC

VARIABLES
    self,                 \* the MilightIBox instance's fields
    pc,                   \* "idle", "connect", "send_command" or "scan"
    retry,                \* loop variable of the running retry loop
    light_command,        \* send_command's argument, kept until the next call
    found_ibox_devices,   \* scan's local list (empty outside the call)
    result,               \* what the last call returned (scan's list, or None)
    raised,               \* the last call ended by an exception
    op,                   \* name of the running / last public call
    pre,                  \* history: self when the call was entered
    txlog,                \* history: frames sent by the call, in order
    nrecv,                \* history: receives performed by the call
    allTimeout,           \* history: every receive of the call timed out
    first22,              \* history: first attempt that received 22 bytes
    rx22,                 \* history: the datagram received by that attempt
    calls,                \* history: send_command calls since the last handshake
    nframes,              \* history: command frames sent since the last handshake
    call,                 \* history: the control operation called, with its arguments
    firstAck,             \* history: first attempt answered by a matching acknowledgment
    validSeen,            \* history: valid discovery responses received by the scan
    scanLog,              \* history: what each receive of the scan delivered, in order
    race                  \* send_command calls made from two threads of the host

vars == <<self, pc, retry, light_command, found_ibox_devices, result, raised,
          op, pre, txlog, nrecv, allTimeout, first22, rx22, calls, nframes,
          call, firstAck, validSeen, scanLog, race>>

(***************************************************************************)
(* Bounds of the exploration.                                              *)
(***************************************************************************)
MaxRetries == 3
MaxCalls == 2
MaxScanRecv == 3
ZoneCalls == 1
ZoneRetries == 1
TempMargin == 40
WrapCalls == 257
WrapRetries == 2
RaceFrames == 2
StaleRetries == 257

(***************************************************************************)
(* Byte strings.                                                           *)
(***************************************************************************)
At(s, i) == s[i + 1]

Slice(s, a, b) == SubSeq(s, a + 1, b)

Zeros(n) == [i \in 1..n |-> 0]

RECURSIVE SumBytes(_)
SumBytes(s) == IF s = <<>> THEN 0 ELSE Head(s) + SumBytes(Tail(s))

ByteMask == 256

(***************************************************************************)
(* Frames with fixed content.                                              *)
(***************************************************************************)
scan_data == <<19, 0, 0, 0, 10, 3, 155, 127, 17, 240, 254, 107, 59, 221, 212>>

cmd_start_session == <<32, 0, 0, 0, 22, 2, 98, 58, 213, 237, 163, 1, 174, 8,
                       45, 70, 97, 65, 167, 246, 220, 175, 211, 230, 0, 0, 30>>

resp_start_session == <<40, 0, 0, 0, 17, 0, 2>>

resp_command == <<136, 0, 0, 0, 3, 0>>

(***************************************************************************)
(* The transport.  A receive ends with a datagram, a timeout or another    *)
(* socket error.                                                           *)
(***************************************************************************)
Datagram(d, a, p) == [kind |-> "data", data |-> d, addr |-> a, port |-> p]

RxTimeout == [kind |-> "timeout", data |-> <<>>, addr |-> "", port |-> -1]

RxError == [kind |-> "error", data |-> <<>>, addr |-> "", port |-> -1]

Min(a, b) == IF a < b THEN a ELSE b

DefaultBufsize == 1024

ScanBufsize == 100

socket_recv_raising(o, bufsize) ==
    IF o.kind = "data"
    THEN [data |-> SubSeq(o.data, 1, Min(Len(o.data), bufsize)),
          addr |-> o.addr, port |-> o.port, raised |-> FALSE]
    ELSE [data |-> <<>>, addr |-> "", port |-> -1, raised |-> TRUE]

\* _socket_recv: the datagram (cut to bufsize bytes) and its source, or b''
\* and ('', -1) when the receive timed out or failed; both exceptions are
\* caught.
socket_recv(o, bufsize) ==
    IF o.kind = "data"
    THEN [data |-> SubSeq(o.data, 1, Min(Len(o.data), bufsize)),
          addr |-> o.addr, port |-> o.port, raised |-> FALSE]
    ELSE [data |-> <<>>, addr |-> "", port |-> -1, raised |-> FALSE]

socket_open_always(s) == [s EXCEPT !.sock_server = TRUE, !.ibox_connected = FALSE]

\* _socket_open: creates the socket unless there is one.
socket_open(s) ==
    IF ~s.sock_server
    THEN [s EXCEPT !.sock_server = TRUE, !.ibox_connected = FALSE]
    ELSE s

\* _socket_close
socket_close(s) == [s EXCEPT !.sock_server = FALSE, !.ibox_connected = FALSE]

disconnect_unguarded(s) == [socket_close(s) EXCEPT !.ibox_connected = FALSE]

\* disconnect
disconnect(s) ==
    IF s.ibox_connected
    THEN [socket_close(s) EXCEPT !.ibox_connected = FALSE]
    ELSE s

(***************************************************************************)
(* State after construction.                                               *)
(***************************************************************************)
NoResult == [none |-> TRUE, devices |-> <<>>]

BRIDGE_TYPE == 0

WALLWASHER_TYPE == 7

RGBWW_TYPE == 8

\* an optional argument: None, or a value
None == [some |-> FALSE, v |-> 0]

Some(x) == [some |-> TRUE, v |-> x]

\* no control operation is running: the call is one of scan, connect,
\* disconnect, send_command
NoCall == [name |-> "", value |-> 0, zone |-> None, lamp_type |-> None]

NewClient(retries, verbose) ==
    [ sock_server      |-> FALSE,
      tx_retries       |-> retries,
      ibox_session_id1 |-> -1,
      ibox_session_id2 |-> -1,
      ibox_connected   |-> FALSE,
      ibox_seq         |-> 0,
      zone             |-> 0,
      lamp_type        |-> RGBWW_TYPE,
      verbose          |-> verbose ]

\* A thread of the host that is not inside send_command.
IdleThread ==
    [pc |-> "idle", retry |-> 0, cmd |-> <<>>, send_seq |-> 0, pending |-> FALSE]

NoReuse == [gap |-> 0, sameCall |-> TRUE]

\* The host before any of its threads has called send_command; `serialized`
\* says whether it lets one thread at a time into the client.
StartRace(serialized) ==
    [serialized |-> serialized,
     th        |-> [t \in {1, 2} |-> IdleThread],
     attempts  |-> 0,                        \* command frames sent
     lastUse   |-> [b \in 0..255 |-> 0],     \* attempt that last carried byte b
     lastCall  |-> [b \in 0..255 |-> 0],     \* the thread whose running call
                                             \* made that attempt, else 0
     reuse     |-> NoReuse,                  \* the latest repetition of a byte
     wrongAck  |-> FALSE]                    \* a call accepted another call's ack

InitFields(retriesSet, verboseSet) ==
    /\ self \in {NewClient(r, v) : r \in retriesSet, v \in verboseSet}
    /\ pc = "idle"
    /\ retry = 0
    /\ light_command = <<>>
    /\ found_ibox_devices = <<>>
    /\ result = NoResult
    /\ raised = FALSE
    /\ op = "init"
    /\ pre = self
    /\ txlog = <<>>
    /\ nrecv = 0
    /\ allTimeout = TRUE
    /\ first22 = 0
    /\ rx22 = <<>>
    /\ calls = 0
    /\ nframes = 0
    /\ call = NoCall
    /\ firstAck = 0
    /\ validSeen = {}
    /\ scanLog = <<>>

InitWith(retriesSet, verboseSet) ==
    /\ InitFields(retriesSet, verboseSet)
    /\ race = StartRace(TRUE)

Init == InitWith(0..MaxRetries, BOOLEAN)

\* Entering a call: the history of the previous call is dropped.
EnterCall(name) ==
    /\ pc = "idle"
    /\ op' = name
    /\ pre' = self
    /\ nrecv' = 0
    /\ allTimeout' = TRUE
    /\ first22' = 0
    /\ rx22' = <<>>
    /\ firstAck' = 0
    /\ validSeen' = {}
    /\ scanLog' = <<>>
    /\ result' = NoResult
    /\ UNCHANGED race

\* Entering a public call other than a control operation.
Enter(name) ==
    /\ EnterCall(name)
    /\ call' = NoCall
    /\ raised' = FALSE

(***************************************************************************)
(* connect                                                                 *)
(***************************************************************************)
connect_begin_keeps_flag(s) ==
    socket_open([s EXCEPT !.ibox_session_id1 = -1, !.ibox_session_id2 = -1])

connect_begin_no_reset(s) == socket_open([s EXCEPT !.ibox_connected = FALSE])

\* connect, before the retry loop: the session is invalidated and the
\* socket opened.
connect_begin(s) ==
    socket_open([s EXCEPT !.ibox_connected = FALSE,
                          !.ibox_session_id1 = -1,
                          !.ibox_session_id2 = -1])

connect_accepts_strict(rx_data) ==
    /\ Len(rx_data) = 22
    /\ Slice(rx_data, 0, 7) = resp_start_session

\* connect, the test on the received bytes: a non-empty reply of 22 bytes
\* ends the loop, whatever its header.
connect_accepts(rx_data) == Len(rx_data) > 0 /\ ~(Len(rx_data) # 22)

connect_store_checked(s, rx_data) ==
    IF Slice(rx_data, 0, 7) # resp_start_session
    THEN s
    ELSE [s EXCEPT !.ibox_connected = TRUE,
                   !.ibox_session_id1 = At(Slice(rx_data, 19, 20), 0),
                   !.ibox_session_id2 = At(Slice(rx_data, 20, 21), 0),
                   !.ibox_seq = 0]

connect_store_swapped(s, rx_data) ==
    [s EXCEPT !.ibox_connected = TRUE,
              !.ibox_session_id1 = At(Slice(rx_data, 20, 21), 0),
              !.ibox_session_id2 = At(Slice(rx_data, 19, 20), 0),
              !.ibox_seq = 0]

\* connect, on an accepted reply: the session ids are bytes 19 and 20.
connect_store(s, rx_data) ==
    [s EXCEPT !.ibox_connected = TRUE,
              !.ibox_session_id1 = At(Slice(rx_data, 19, 20), 0),
              !.ibox_session_id2 = At(Slice(rx_data, 20, 21), 0),
              !.ibox_seq = 0]

ConnectStart ==
    /\ Enter("connect")
    /\ self' = connect_begin(self)
    /\ retry' = 0
    /\ txlog' = <<>>
    /\ pc' = IF 0 < self.tx_retries THEN "connect" ELSE "idle"
    /\ light_command' = <<>>
    /\ found_ibox_devices' = <<>>
    /\ UNCHANGED <<calls, nframes>>

ConnectAttempt(o) ==
    /\ pc = "connect"
    /\ retry < self.tx_retries
    /\ LET rx == socket_recv(o, DefaultBufsize)
           accepted == ~rx.raised /\ connect_accepts(rx.data)
       IN  /\ txlog' = Append(txlog, cmd_start_session)
           /\ nrecv' = nrecv + 1
           /\ allTimeout' = (allTimeout /\ o.kind = "timeout")
           /\ raised' = rx.raised
           /\ self' = IF accepted THEN connect_store(self, rx.data) ELSE self
           /\ calls' = IF accepted THEN 0 ELSE calls
           /\ nframes' = IF accepted THEN 0 ELSE nframes
           /\ IF first22 = 0 /\ o.kind = "data" /\ Len(o.data) = 22
              THEN first22' = retry + 1 /\ rx22' = o.data
              ELSE UNCHANGED <<first22, rx22>>
           /\ IF accepted \/ rx.raised \/ ~(retry + 1 < self.tx_retries)
              THEN pc' = "idle" /\ retry' = 0
              ELSE pc' = "connect" /\ retry' = retry + 1
    /\ UNCHANGED <<light_command, found_ibox_devices, result, op, pre,
                   call, firstAck, validSeen, scanLog, race>>

Disconnect ==
    /\ Enter("disconnect")
    /\ self' = disconnect(self)
    /\ txlog' = <<>>
    /\ light_command' = <<>>
    /\ found_ibox_devices' = <<>>
    /\ UNCHANGED <<pc, retry, calls, nframes>>

(***************************************************************************)
(* send_command                                                            *)
(***************************************************************************)
checksum_unmasked(cmd) == SumBytes(cmd)

\* send_command, the checksum of the light command.
checksum(cmd) == SumBytes(cmd) % ByteMask

command_frame_ids_swapped(s, cmd) ==
    <<128, 0, 0, 0, 17, s.ibox_session_id2, s.ibox_session_id1, 0, s.ibox_seq, 0>>
        \o cmd \o <<checksum(cmd)>>

command_frame_stale(s, cmd) ==
    <<128, 0, 0, 0, 17, s.ibox_session_id1, s.ibox_session_id2, 0,
      (s.ibox_seq + 1) % ByteMask, 0>> \o cmd \o <<checksum(cmd)>>

\* send_command, the frame of one attempt.
command_frame(s, cmd) ==
    <<128, 0, 0, 0, 17, s.ibox_session_id1, s.ibox_session_id2, 0, s.ibox_seq, 0>>
        \o cmd \o <<checksum(cmd)>>

seq_wraps_at_255(seq, attempt) == (seq + 1) % 255

seq_once_per_call(seq, attempt) == IF attempt = 0 THEN (seq + 1) % ByteMask ELSE seq

seq_unmasked(seq, attempt) == seq + 1

\* send_command, the sequence number after the frame of one attempt is built.
seq_after_attempt(seq, attempt) == (seq + 1) % ByteMask

ack_accepted_seq_or_previous(rx_data, send_seq) ==
    /\ Len(rx_data) > 0
    /\ ~(Len(rx_data) # 8)
    /\ ~(Slice(rx_data, 0, 6) # resp_command)
    /\ ~(At(rx_data, 6) # send_seq /\ At(rx_data, 6) # (send_seq + 255) % 256)

ack_accepted_any_seq(rx_data, send_seq) ==
    /\ Len(rx_data) > 0
    /\ ~(Len(rx_data) # 8)
    /\ ~(Slice(rx_data, 0, 6) # resp_command)

\* send_command, the test on the received bytes that ends the retry loop.
ack_accepted(rx_data, send_seq) ==
    /\ Len(rx_data) > 0
    /\ ~(Len(rx_data) # 8)
    /\ ~(Slice(rx_data, 0, 6) # resp_command)
    /\ ~(At(rx_data, 6) # send_seq)

send_command_runs_fresh_only(s, cmd) ==
    ~(Len(cmd) # 11) /\ s.ibox_connected /\ s.ibox_seq = 0

send_command_runs_unchecked(s, cmd) == ~(Len(cmd) # 11)

\* send_command, the two checks before any I/O: the command has 11 bytes
\* and the session is connected.
send_command_runs(s, cmd) == ~(Len(cmd) # 11) /\ s.ibox_connected

\* send_command entered with cmd, from a caller that has set up the history
SendCommandBody(cmd) ==
    /\ light_command' = cmd
    /\ txlog' = <<>>
    /\ retry' = 0
    /\ LET run == send_command_runs(self, cmd)
       IN  /\ pc' = IF run /\ 0 < self.tx_retries THEN "send_command" ELSE "idle"
           /\ calls' = IF run THEN calls + 1 ELSE calls
    /\ found_ibox_devices' = <<>>
    /\ UNCHANGED <<self, nframes>>

SendCommandStart(cmd) ==
    /\ Enter("send_command")
    /\ SendCommandBody(cmd)

\* The transport delivered a command response for the frame just sent: 8
\* bytes, the fixed header 88 00 00 00 03 00, then the frame's sequence byte.
MatchingAck(o, frame) ==
    /\ o.kind = "data"
    /\ Len(o.data) = 8
    /\ \A i \in 1..6 : o.data[i] = <<136, 0, 0, 0, 3, 0>>[i]
    /\ o.data[7] = frame[9]

SendAttempt(o) ==
    /\ pc = "send_command"
    /\ retry < self.tx_retries
    /\ LET cmd == command_frame(self, light_command)
           send_seq == self.ibox_seq
           rx == socket_recv(o, DefaultBufsize)
           acked == ~rx.raised /\ ack_accepted(rx.data, send_seq)
       IN  /\ self' = [self EXCEPT !.ibox_seq = seq_after_attempt(@, retry)]
           /\ txlog' = Append(txlog, cmd)
           /\ nframes' = nframes + 1
           /\ firstAck' = IF firstAck = 0 /\ MatchingAck(o, cmd)
                          THEN retry + 1 ELSE firstAck
           /\ nrecv' = nrecv + 1
           /\ allTimeout' = (allTimeout /\ o.kind = "timeout")
           /\ raised' = rx.raised
           /\ IF acked \/ rx.raised \/ ~(retry + 1 < self.tx_retries)
              THEN pc' = "idle" /\ retry' = 0
              ELSE pc' = "send_command" /\ retry' = retry + 1
    /\ UNCHANGED <<light_command, found_ibox_devices, result, op, pre,
                   first22, rx22, calls, call, validSeen, scanLog, race>>

(***************************************************************************)
(* scan                                                                    *)
(***************************************************************************)
HexDigits == <<"0", "1", "2", "3", "4", "5", "6", "7",
               "8", "9", "A", "B", "C", "D", "E", "F">>

\* '{:02X}' of one byte, as a sequence of characters
Hex2(b) == <<HexDigits[(b \div 16) + 1], HexDigits[(b % 16) + 1]>>

format_mac_from_5(rx_data) ==
    Hex2(At(rx_data, 5)) \o <<":">> \o Hex2(At(rx_data, 6)) \o <<":">> \o
    Hex2(At(rx_data, 7)) \o <<":">> \o Hex2(At(rx_data, 8)) \o <<":">> \o
    Hex2(At(rx_data, 9)) \o <<":">> \o Hex2(At(rx_data, 10))

\* scan, the MAC of a response: '{:02X}:{:02X}:{:02X}:{:02X}:{:02X}:{:02X}'
\* of bytes 6..11
format_mac(rx_data) ==
    Hex2(At(rx_data, 6)) \o <<":">> \o Hex2(At(rx_data, 7)) \o <<":">> \o
    Hex2(At(rx_data, 8)) \o <<":">> \o Hex2(At(rx_data, 9)) \o <<":">> \o
    Hex2(At(rx_data, 10)) \o <<":">> \o Hex2(At(rx_data, 11))

InList(x, list) == \E i \in 1..Len(list) : list[i] = x

\* scan, the body of the receive loop for one received datagram rx: the new
\* list, and whether the loop goes on ("loop"), ends with the list ("list")
\* or the function returns None ("none").
scan_receive(s, found, rx) ==
    IF ~(Len(rx.data) > 0)
    THEN [found |-> found, next |-> "list"]
    ELSE IF Len(rx.data) = 69 /\ At(rx.data, 0) = 24
    THEN IF rx.port # (At(rx.data, 49) * 256) + At(rx.data, 50)
         THEN IF s.verbose
              THEN [found |-> found, next |-> "none"]
              ELSE [found |-> found, next |-> "loop"]
         ELSE LET device == [ip |-> rx.addr, port |-> rx.port,
                             mac |-> format_mac(rx.data)]
              IN  IF ~InList(device, found)
                  THEN [found |-> Append(found, device), next |-> "loop"]
                  ELSE [found |-> found, next |-> "loop"]
    ELSE [found |-> found, next |-> "loop"]

\* The transport delivered a valid discovery response: 69 bytes, tag 0x18,
\* and the port in bytes 49..50 is the datagram's source port.
ValidDiscovery(o) ==
    /\ o.kind = "data"
    /\ Len(o.data) = 69
    /\ o.data[1] = 24
    /\ o.data[50] * 256 + o.data[51] = o.port

ScanStart ==
    /\ Enter("scan")
    /\ self' = socket_open(self)
    /\ found_ibox_devices' = <<>>
    /\ txlog' = <<scan_data>>
    /\ pc' = "scan"
    /\ light_command' = <<>>
    /\ UNCHANGED <<retry, calls, nframes>>

ScanReceive(o) ==
    /\ pc = "scan"
    /\ LET rx == socket_recv(o, ScanBufsize)
           r == scan_receive(self, found_ibox_devices, rx)
       IN  /\ nrecv' = nrecv + 1
           /\ allTimeout' = (allTimeout /\ o.kind = "timeout")
           /\ raised' = rx.raised
           /\ found_ibox_devices' = IF r.next = "loop" /\ ~rx.raised
                                    THEN r.found ELSE <<>>
           /\ pc' = IF r.next = "loop" /\ ~rx.raised THEN "scan" ELSE "idle"
           /\ result' = IF r.next = "list" /\ ~rx.raised
                        THEN [none |-> FALSE, devices |-> r.found]
                        ELSE NoResult
    /\ validSeen' = IF ValidDiscovery(o) THEN validSeen \cup {o} ELSE validSeen
    /\ scanLog' = Append(scanLog, o)
    /\ UNCHANGED <<self, retry, light_command, op, pre, txlog, first22, rx22,
                   calls, nframes, call, firstAck, race>>

(***************************************************************************)
(* Inputs: what the transport may deliver, and the commands sent.          *)
(***************************************************************************)
BoxAddr == "10.10.100.254"

OtherAddr == "10.10.100.9"

BoxPort == 5987

OtherPort == BoxPort + 13

MacA == <<240, 254, 107, 1, 2, 3>>

MacB == <<240, 254, 107, 171, 205, 239>>

\* a session-start response: header, MAC, 6 bytes, the two ids, one byte
HandshakeReply(header, id1, id2) ==
    header \o MacA \o Zeros(6) \o <<id1, id2, 0>>

\* a command response: header, the sequence number echoed, one byte
AckReply(header, seq) == header \o <<seq, 0>>

\* a discovery response of 69 bytes: tag, MAC at 6..11, port at 49..50
DiscoveryReply(tag, mac, port) ==
    <<tag>> \o Zeros(5) \o mac \o Zeros(37)
        \o <<port \div 256, port % 256>> \o Zeros(18)

FromBox(d) == Datagram(d, BoxAddr, BoxPort)

IdPairs == {<<5, 167>>, <<0, 255>>}

BadHeader7 == <<40, 0, 0, 0, 17, 0, 3>>

BadHeader6 == <<136, 0, 0, 0, 4, 0>>

ConnectOutcomes ==
    {RxTimeout, RxError}
    \cup {FromBox(HandshakeReply(resp_start_session, p[1], p[2])) : p \in IdPairs}
    \cup {FromBox(HandshakeReply(BadHeader7, 167, 5)),
          FromBox(Zeros(21)),
          FromBox(AckReply(resp_command, 0)),
          FromBox(<<>>)}

AckOutcomes(send_seq) ==
    {RxTimeout, RxError,
     FromBox(AckReply(resp_command, send_seq)),
     FromBox(AckReply(resp_command, (send_seq + 255) % 256)),
     FromBox(AckReply(BadHeader6, send_seq)),
     FromBox(HandshakeReply(resp_start_session, 5, 167))}

ScanOutcomes ==
    {RxTimeout, RxError,
     FromBox(DiscoveryReply(24, MacA, BoxPort)),
     Datagram(DiscoveryReply(24, MacB, BoxPort), OtherAddr, BoxPort),
     Datagram(DiscoveryReply(24, MacA, BoxPort), BoxAddr, OtherPort),
     FromBox(DiscoveryReply(40, MacA, BoxPort)),
     FromBox(HandshakeReply(resp_start_session, 5, 167)),
     FromBox(<<>>)}

\* The scan outcomes used where scan is one call among the others.
BasicScanOutcomes ==
    {RxTimeout, RxError,
     FromBox(DiscoveryReply(24, MacA, BoxPort)),
     Datagram(DiscoveryReply(24, MacA, BoxPort), BoxAddr, OtherPort)}

LightOnCommand == <<49, 0, 0, 8, 4, 1, 0, 0, 0, 0, 0>>

Commands ==
    {LightOnCommand, <<49, 0, 0, 7, 3, 255, 0, 0, 0, 4, 0>>, Zeros(11), Zeros(10)}

(***************************************************************************)
(* The client under serialized use: one public call at a time, each        *)
(* running to its return.                                                  *)
(***************************************************************************)
Next ==
    \/ ConnectStart
    \/ \E o \in ConnectOutcomes : ConnectAttempt(o)
    \/ Disconnect
    \/ \E c \in Commands : calls < MaxCalls /\ SendCommandStart(c)
    \/ \E o \in AckOutcomes(self.ibox_seq) : SendAttempt(o)
    \/ ScanStart
    \/ \E o \in BasicScanOutcomes :
          (o.kind = "data" => nrecv < MaxScanRecv) /\ ScanReceive(o)

Spec == Init /\ [][Next]_vars

(***************************************************************************)
(* One session used for a long run of commands: a single handshake, then   *)
(* WrapCalls send_command calls whose replies are acknowledgments,         *)
(* malformed replies and timeouts in any mix.                              *)
(***************************************************************************)
WrapOutcomes(send_seq) ==
    {RxTimeout,
     FromBox(AckReply(resp_command, send_seq)),
     FromBox(AckReply(BadHeader6, send_seq))}

InitWrap == InitWith(1..WrapRetries, {FALSE})

NextWrap ==
    \/ ~self.ibox_connected /\ ConnectStart
    \/ ConnectAttempt(FromBox(HandshakeReply(resp_start_session, 5, 167)))
    \/ calls < WrapCalls /\ SendCommandStart(LightOnCommand)
    \/ \E o \in WrapOutcomes(self.ibox_seq) : SendAttempt(o)

SpecWrap == InitWrap /\ [][NextWrap]_vars

(***************************************************************************)
(* Discovery on its own: scan is called on a fresh client, and again       *)
(* after it returned, and receives every kind of datagram.                 *)
(***************************************************************************)
InitScan == InitWith({ZoneRetries}, BOOLEAN)

NextScan ==
    \/ ScanStart
    \/ \E o \in ScanOutcomes :
          (o.kind = "data" => nrecv < MaxScanRecv) /\ ScanReceive(o)

SpecScan == InitScan /\ [][NextScan]_vars

\* The transport reports a receive timeout sooner or later: the socket has
\* a timeout, and the stream of datagrams is assumed to end.
FairSpecScan == SpecScan /\ WF_vars(ScanReceive(RxTimeout))

(***************************************************************************)
(* The zone and lamp_type properties.                                      *)
(***************************************************************************)
zone_setter_allows_5(s, zone) ==
    IF (zone < 0) \/ (zone > 5)
    THEN [raised |-> TRUE, self |-> s]
    ELSE [raised |-> FALSE, self |-> [s EXCEPT !.zone = zone]]

\* zone.setter: a zone outside 0..4 raises and stores nothing.
zone_setter(s, zone) ==
    IF (zone < 0) \/ (zone > 4)
    THEN [raised |-> TRUE, self |-> s]
    ELSE [raised |-> FALSE, self |-> [s EXCEPT !.zone = zone]]

\* lamp_type.setter: the low byte is stored.
lamp_type_setter(s, lamp_type) ==
    [raised |-> FALSE, self |-> [s EXCEPT !.lamp_type = lamp_type % ByteMask]]

\* A property assignment: r is what the setter gives.
SetProperty(name, r) ==
    /\ EnterCall(name)
    /\ call' = NoCall
    /\ raised' = r.raised
    /\ self' = r.self
    /\ light_command' = <<>>
    /\ found_ibox_devices' = <<>>
    /\ txlog' = <<>>
    /\ UNCHANGED <<pc, retry, calls, nframes>>

SetZone(zone) == SetProperty("zone", zone_setter(self, zone))

SetLampType(lamp_type) == SetProperty("lamp_type", lamp_type_setter(self, lamp_type))

(***************************************************************************)
(* The control operations: light, light_on, light_off, night, white,       *)
(* color_raw, saturation, brightness, temperature, mode,                   *)
(* mode_speed_decrease, mode_speed_increase, link, unlink.  A call c is    *)
(* the operation's name, its parameter (0 when it has none; for light, 1   *)
(* is on=True and 0 is on=False) and the optional zone and lamp_type.      *)
(***************************************************************************)
TempMin == 2700

TempMax == 6500

\* `if not zone: zone = self._zone`: None and 0 both give the default.
resolve(arg, default) == IF ~(arg.some /\ arg.v # 0) THEN default ELSE arg.v

param_valid_loose(name, value, zone) ==
    CASE name = "color_raw"   -> ~((value < 0) \/ (value > 255))
      [] name = "saturation"  -> ~((zone < 0) \/ (zone > 100))
      [] name = "brightness"  -> ~((value < 0) \/ (value > 255))
      [] name = "temperature" -> ~((value < TempMin) \/ (value > TempMax))
      [] name = "mode"        -> ~((value < 0) \/ (value > 9))
      [] OTHER                -> TRUE

\* The range test of each operation; a failed test raises ValueError.
\* saturation tests its zone.
param_valid(name, value, zone) ==
    CASE name = "color_raw"   -> ~((value < 0) \/ (value > 255))
      [] name = "saturation"  -> ~((zone < 0) \/ (zone > 100))
      [] name = "brightness"  -> ~((value < 0) \/ (value > 100))
      [] name = "temperature" -> ~((value < TempMin) \/ (value > TempMax))
      [] name = "mode"        -> ~((value < 1) \/ (value > 9))
      [] OTHER                -> TRUE

temperature_byte_steep(temperature) ==
    ((temperature - TempMin) \div (((TempMax - TempMin) \div 100) - 1)) % ByteMask

temperature_byte_rounded(temperature) ==
    ((2 * (temperature - TempMin) + ((TempMax - TempMin) \div 100))
        \div (2 * ((TempMax - TempMin) \div 100))) % ByteMask

\* temperature, the colour temperature byte:
\* int((temperature - 2700) / ((6500-2700)/100)) & 0xFF.  The quotient is
\* not negative where this is evaluated, so int() is the floor.
temperature_byte(temperature) ==
    ((temperature - TempMin) \div ((TempMax - TempMin) \div 100)) % ByteMask

\* The list each operation hands to bytearray().
command_bytes(name, value, zone, lamp_type) ==
    CASE name = "light" ->
             <<49, 0, 0, lamp_type % 256, 4, IF value # 0 THEN 1 ELSE 2,
               0, 0, 0, zone % 8, 0>>
      [] name = "light_on" ->
             <<49, 0, 0, lamp_type % 256, 4, 1, 0, 0, 0, zone % 8, 0>>
      [] name = "light_off" ->
             <<49, 0, 0, lamp_type % 256, 4, 2, 0, 0, 0, zone % 8, 0>>
      [] name = "night" ->
             <<49, 0, 0, lamp_type, 4, 5, 0, 0, 0, zone, 0>>
      [] name = "white" ->
             <<49, 0, 0, lamp_type % 256, 5, 100, 0, 0, 0, zone % 8, 0>>
      [] name = "color_raw" ->
             <<49, 0, 0, lamp_type % 256, 1, value, value, value, value,
               zone % 8, 0>>
      [] name = "saturation" ->
             <<49, 0, 0, lamp_type % 256, 2, value, 0, 0, 0, zone % 8, 0>>
      [] name = "brightness" ->
             <<49, 0, 0, lamp_type % 256, 3, value, 0, 0, 0, zone % 8, 0>>
      [] name = "temperature" ->
             <<49, 0, 0, lamp_type % 256, 5, temperature_byte(value),
               0, 0, 0, zone % 8, 0>>
      [] name = "mode" ->
             <<49, 0, 0, lamp_type % 256, 6, value, 0, 0, 0, zone % 8, 0>>
      [] name = "mode_speed_decrease" ->
             <<49, 0, 0, lamp_type % 256, 4, 4, 0, 0, 0, zone % 8, 0>>
      [] name = "mode_speed_increase" ->
             <<49, 0, 0, lamp_type % 256, 4, 3, 0, 0, 0, zone % 8, 0>>
      [] name = "link" ->
             <<61, 0, 0, lamp_type % 256, 0, 0, 0, 0, 0, zone % 8, 0>>
      [] name = "unlink" ->
             <<62, 0, 0, lamp_type % 256, 0, 0, 0, 0, 0, zone % 8, 0>>

\* bytearray(list) raises ValueError unless every item is in range(0, 256).
bytearray_ok(list) == \A i \in 1..Len(list) : list[i] >= 0 /\ list[i] < 256

\* A control operation up to its call of send_command: the exception, or
\* the light command handed over.
control_command(s, c) ==
    LET zone == resolve(c.zone, s.zone)
        lamp_type == resolve(c.lamp_type, s.lamp_type)
    IN  IF ~param_valid(c.name, c.value, zone)
        THEN [raised |-> TRUE, cmd |-> <<>>]
        ELSE IF ~bytearray_ok(command_bytes(c.name, c.value, zone, lamp_type))
        THEN [raised |-> TRUE, cmd |-> <<>>]
        ELSE [raised |-> FALSE,
              cmd |-> command_bytes(c.name, c.value, zone, lamp_type)]

ControlCommand(c) ==
    LET r == control_command(self, c)
    IN  /\ EnterCall(IF r.raised THEN "control" ELSE "send_command")
        /\ call' = c
        /\ raised' = r.raised
        /\ IF r.raised
           THEN /\ light_command' = <<>>
                /\ txlog' = <<>>
                /\ found_ibox_devices' = <<>>
                /\ UNCHANGED <<self, pc, retry, calls, nframes>>
           ELSE SendCommandBody(r.cmd)

(***************************************************************************)
(* Inputs of the control operations.                                       *)
(***************************************************************************)
Control(name, value, zone, lamp_type) ==
    [name |-> name, value |-> value, zone |-> zone, lamp_type |-> lamp_type]

ZoneArgs == {None, Some(0), Some(1), Some(5), Some(8)}

LampArgs == {None, Some(BRIDGE_TYPE), Some(263)}

\* The parameter values tried for each operation.
ControlValues ==
    [ light               |-> {0, 1},
      light_on            |-> {0},
      light_off           |-> {0},
      night               |-> {0},
      white               |-> {0},
      color_raw           |-> {-1, 0, 255, 256},
      saturation          |-> {-1, 0, 100, 127, 255, 300},
      brightness          |-> {-1, 0, 75, 100, 101, 150},
      temperature         |-> {TempMin - 1, TempMin, TempMin + 37, TempMax,
                               TempMax + 1},
      mode                |-> {0, 1, 9, 10},
      mode_speed_decrease |-> {0},
      mode_speed_increase |-> {0},
      link                |-> {0},
      unlink              |-> {0} ]

\* The parameter value used when the zone and the lamp type are varied.
TypicalValue ==
    [ light               |-> 1,
      light_on            |-> 0,
      light_off           |-> 0,
      night               |-> 0,
      white               |-> 0,
      color_raw           |-> 255,
      saturation          |-> 100,
      brightness          |-> 75,
      temperature         |-> TempMax,
      mode                |-> 9,
      mode_speed_decrease |-> 0,
      mode_speed_increase |-> 0,
      link                |-> 0,
      unlink              |-> 0 ]

\* Every value with the defaults, every zone and lamp type with one value,
\* and saturation with every value in every zone.
ControlCalls ==
    UNION {   {Control(n, v, None, None) : v \in ControlValues[n]}
         \cup {Control(n, TypicalValue[n], z, l) : z \in ZoneArgs, l \in LampArgs}
           : n \in DOMAIN ControlValues}
    \cup {Control("saturation", v, z, None) :
             v \in ControlValues["saturation"], z \in ZoneArgs}

ZoneInputs == {-1, 2, 5}

LampInputs == {263}

(***************************************************************************)
(* A session driven through the control operations: the properties are     *)
(* set, one handshake is made, and control operations are called with the  *)
(* inputs above; each frame is acknowledged or times out.                  *)
(***************************************************************************)
ZoneOutcomes(send_seq) ==
    {RxTimeout, FromBox(AckReply(resp_command, send_seq))}

InitZone == InitWith({ZoneRetries}, {FALSE})

NextZone ==
    \/ ~self.ibox_connected /\ ConnectStart
    \/ ConnectAttempt(FromBox(HandshakeReply(resp_start_session, 5, 167)))
    \/ \E z \in ZoneInputs : SetZone(z)
    \/ \E t \in LampInputs : SetLampType(t)
    \/ \E c \in ControlCalls :
          self.ibox_connected /\ calls < ZoneCalls /\ ControlCommand(c)
    \/ \E o \in ZoneOutcomes(self.ibox_seq) : SendAttempt(o)

SpecZone == InitZone /\ [][NextZone]_vars

(***************************************************************************)
(* The colour temperature: one handshake, then temperature() with the      *)
(* values around both ends of its range.                                   *)
(***************************************************************************)
TemperatureCalls ==
    {Control("temperature", k, None, None) :
        k \in ((TempMin - TempMargin)..(TempMin + TempMargin))
              \cup ((TempMax - TempMargin)..(TempMax + TempMargin))}

NextTemp ==
    \/ ~self.ibox_connected /\ ConnectStart
    \/ ConnectAttempt(FromBox(HandshakeReply(resp_start_session, 5, 167)))
    \/ \E c \in TemperatureCalls :
          self.ibox_connected /\ calls < ZoneCalls /\ ControlCommand(c)
    \/ \E o \in ZoneOutcomes(self.ibox_seq) : SendAttempt(o)

SpecTemp == InitZone /\ [][NextTemp]_vars

(***************************************************************************)
(* send_command called from two threads of the host on one client.  The    *)
(* client has no lock: a thread may be preempted between any two           *)
(* statements of the retry loop, so each statement that touches _ibox_seq  *)
(* is a step of its own: build the frame, read send_seq, add one, mask,    *)
(* send, receive.  A host that serializes lets a thread enter send_command *)
(* only when no other thread is inside it.  The bridge answers a frame     *)
(* with an acknowledgment carrying the frame's sequence byte; whichever    *)
(* thread is receiving gets it.                                            *)
(***************************************************************************)
RaceThreads == {1, 2}

serialVars ==
    <<pc, retry, light_command, found_ibox_devices, result, raised, op, pre,
      txlog, nrecv, allTimeout, first22, rx22, calls, nframes, call, firstAck,
      validSeen, scanLog>>

seq_masked_7bit(seq) == seq % 128

\* self._ibox_seq += 0x01
seq_added(seq) == seq + 1

\* self._ibox_seq &= 0xFF
seq_masked(seq) == seq % ByteMask

\* send_command entered by thread t: both checks pass.
RaceStart(t) ==
    /\ pc = "idle"
    /\ race.th[t].pc = "idle"
    /\ race.serialized => \A u \in RaceThreads : race.th[u].pc = "idle"
    /\ send_command_runs(self, LightOnCommand)
    /\ 0 < self.tx_retries
    /\ race' = [race EXCEPT !.th[t].pc = "build", !.th[t].retry = 0]
    /\ UNCHANGED <<self, serialVars>>

\* cmd = bytearray([... self._ibox_seq ...]) + light_command + checksum;
\* bytearray raises ValueError on an item above 255.
RaceBuild(t) ==
    /\ race.th[t].pc = "build"
    /\ LET cmd == command_frame(self, LightOnCommand)
       IN  race' = IF bytearray_ok(cmd)
                   THEN [race EXCEPT !.th[t].pc = "read", !.th[t].cmd = cmd]
                   ELSE [race EXCEPT !.th[t].pc = "raised"]
    /\ UNCHANGED <<self, serialVars>>

\* send_seq = self._ibox_seq
RaceRead(t) ==
    /\ race.th[t].pc = "read"
    /\ race' = [race EXCEPT !.th[t].pc = "add", !.th[t].send_seq = self.ibox_seq]
    /\ UNCHANGED <<self, serialVars>>

RaceAdd(t) ==
    /\ race.th[t].pc = "add"
    /\ self' = [self EXCEPT !.ibox_seq = seq_added(@)]
    /\ race' = [race EXCEPT !.th[t].pc = "mask"]
    /\ UNCHANGED serialVars

RaceMask(t) ==
    /\ race.th[t].pc = "mask"
    /\ self' = [self EXCEPT !.ibox_seq = seq_masked(@)]
    /\ race' = [race EXCEPT !.th[t].pc = "send"]
    /\ UNCHANGED serialVars

\* self._socket_send(cmd)
RaceSend(t) ==
    /\ race.th[t].pc = "send"
    /\ LET b == At(race.th[t].cmd, 8)
           n == race.attempts + 1
       IN  race' = [race EXCEPT
                      !.th[t].pc = "recv",
                      !.th[t].pending = TRUE,
                      !.attempts = n,
                      !.lastUse[b] = n,
                      !.lastCall[b] = t,
                      !.reuse = IF race.lastUse[b] # 0
                                THEN [gap |-> n - race.lastUse[b],
                                      sameCall |-> race.lastCall[b] = t]
                                ELSE @]
    /\ UNCHANGED <<self, serialVars>>

\* rx_data = self._socket_recv()[0] and the tests on it, in thread t: the
\* receive times out (u = 0) or delivers the acknowledgment of the frame
\* that thread u sent and is waiting on.  An acknowledgment nobody received
\* before its sender stopped waiting is lost.
RaceRecv(t, u) ==
    /\ race.th[t].pc = "recv"
    /\ u # 0 => race.th[u].pending
    /\ LET o == IF u = 0 THEN RxTimeout
                ELSE FromBox(AckReply(resp_command, At(race.th[u].cmd, 8)))
           rx == socket_recv(o, DefaultBufsize)
           acked == ack_accepted(rx.data, race.th[t].send_seq)
           last == ~(race.th[t].retry + 1 < self.tx_retries)
           delivered == [race EXCEPT !.th[u].pending = FALSE]
           heard == IF u = 0 THEN race ELSE delivered
       IN  race' = IF acked \/ last
                   THEN [heard EXCEPT
                           !.wrongAck = @ \/ (acked /\ u # t),
                           !.th[t] = IdleThread,
                           !.lastCall = [b \in 0..255 |->
                                            IF race.lastCall[b] = t THEN 0
                                            ELSE race.lastCall[b]]]
                   ELSE [heard EXCEPT
                           !.th[t].pc = "build",
                           !.th[t].retry = @ + 1,
                           !.th[t].pending = FALSE]
    /\ UNCHANGED <<self, serialVars>>

InitRace ==
    /\ InitFields({ZoneRetries}, {FALSE})
    /\ race \in {StartRace(b) : b \in BOOLEAN}

NextRace ==
    \/ ~self.ibox_connected /\ ConnectStart
    \/ ConnectAttempt(FromBox(HandshakeReply(resp_start_session, 5, 167)))
    \/ \E t \in RaceThreads :
          /\ race.attempts < (IF race.serialized THEN WrapCalls ELSE RaceFrames)
          /\ RaceStart(t)
    \/ \E t \in RaceThreads : RaceBuild(t)
    \/ \E t \in RaceThreads : RaceRead(t)
    \/ \E t \in RaceThreads : RaceAdd(t)
    \/ \E t \in RaceThreads : RaceMask(t)
    \/ \E t \in RaceThreads : RaceSend(t)
    \/ \E t \in RaceThreads, u \in RaceThreads \cup {0} : RaceRecv(t, u)

SpecRace == InitRace /\ [][NextRace]_vars

(***************************************************************************)
(* The operations that are not connect, disconnect or send_command, on a   *)
(* session in any of its states: scan, is_connected, the two setters and   *)
(* control operations, among them ones rejected for their parameter.       *)
(***************************************************************************)
\* is_connected
is_connected(s) == s.ibox_connected

IsConnected ==
    /\ pc = "idle"
    /\ op' = "is_connected"
    /\ pre' = self
    /\ nrecv' = 0
    /\ allTimeout' = TRUE
    /\ first22' = 0
    /\ rx22' = <<>>
    /\ firstAck' = 0
    /\ validSeen' = {}
    /\ scanLog' = <<>>
    /\ call' = NoCall
    /\ raised' = FALSE
    /\ result' = [none |-> FALSE, devices |-> <<>>, value |-> is_connected(self)]
    /\ light_command' = <<>>
    /\ found_ibox_devices' = <<>>
    /\ txlog' = <<>>
    /\ UNCHANGED <<self, pc, retry, calls, nframes, race>>

SessionCalls ==
    { Control("light_on", 0, None, None),
      Control("color_raw", 256, None, None),
      Control("brightness", 101, None, None),
      Control("mode", 10, None, None),
      Control("temperature", TempMax + 1, None, None),
      Control("saturation", 100, Some(5), None),
      Control("white", 0, Some(1), Some(263)) }

SessionHandshakes ==
    {RxTimeout, FromBox(HandshakeReply(resp_start_session, 5, 167)),
     FromBox(HandshakeReply(resp_start_session, 17, 0))}

InitSession == InitWith({ZoneRetries}, BOOLEAN)

NextSession ==
    \/ ConnectStart
    \/ \E o \in SessionHandshakes : ConnectAttempt(o)
    \/ Disconnect
    \/ ScanStart
    \/ \E o \in BasicScanOutcomes :
          (o.kind = "data" => nrecv < MaxScanRecv) /\ ScanReceive(o)
    \/ IsConnected
    \/ \E z \in ZoneInputs : SetZone(z)
    \/ \E t \in LampInputs : SetLampType(t)
    \/ \E c \in SessionCalls : calls < MaxCalls /\ ControlCommand(c)
    \/ \E o \in ZoneOutcomes(self.ibox_seq) : SendAttempt(o)

SpecSession == InitSession /\ [][NextSession]_vars

(***************************************************************************)
(* Assignments to the zone and lamp_type properties, in any order.         *)
(***************************************************************************)
SetterZones == -1..5

SetterLampTypes == {-1, 0, 7, 256, 263}

NextSetters ==
    \/ \E z \in SetterZones : SetZone(z)
    \/ \E t \in SetterLampTypes : SetLampType(t)

SpecSetters == InitZone /\ [][NextSetters]_vars

(***************************************************************************)
(* The first send_command call of a session, with more attempts than there *)
(* are sequence bytes                                                      *)
(* (tx_retries is whatever the constructor was given).  The bridge's reply *)
(* to a frame may be late: a receive delivers nothing, the acknowledgement *)
(* of the frame just sent, or the acknowledgement of the previous or of    *)
(* the first frame of the call.                                            *)
(***************************************************************************)
StaleOutcomes(send_seq, first_seq) ==
    {RxTimeout,
     FromBox(AckReply(resp_command, send_seq)),
     FromBox(AckReply(resp_command, (send_seq + 255) % 256)),
     FromBox(AckReply(resp_command, first_seq))}

InitStale == InitWith({StaleRetries}, {FALSE})

NextStale ==
    \/ ~self.ibox_connected /\ ConnectStart
    \/ ConnectAttempt(FromBox(HandshakeReply(resp_start_session, 5, 167)))
    \/ nframes = 0 /\ SendCommandStart(LightOnCommand)
    \/ \E o \in StaleOutcomes(self.ibox_seq, pre.ibox_seq) : SendAttempt(o)

SpecStale == InitStale /\ [][NextStale]_vars

(***************************************************************************)
(* Sessions made, lost and dropped, each with one send_command call long   *)
(* enough for the sequence number to pass 255: the handshake times out (a  *)
(* few times at most) or is answered with one of two id pairs, and each    *)
(* command frame times out or is acknowledged.                             *)
(***************************************************************************)
RangeHandshakes ==
    {RxTimeout}
    \cup {FromBox(HandshakeReply(resp_start_session, p[1], p[2])) : p \in IdPairs}

NextRange ==
    \/ ConnectStart
    \/ \E o \in RangeHandshakes :
          (o.kind = "timeout" => retry < MaxCalls) /\ ConnectAttempt(o)
    \/ Disconnect
    \/ nframes = 0 /\ SendCommandStart(LightOnCommand)
    \/ \E o \in ZoneOutcomes(self.ibox_seq) : SendAttempt(o)

SpecRange == InitStale /\ [][NextRange]_vars

(***************************************************************************)
(* The client of milight_ibox2_control.py.  Its connect, disconnect and    *)
(* send_command are those of milight_ibox2_client.py statement for         *)
(* statement, but its socket_recv returns None, not a pair, when the       *)
(* receive times out or fails, and both callers unpack what it returns.    *)
(***************************************************************************)
\* milight_ibox2_control.py, socket_recv: the datagram and its source, or
\* None when the receive timed out or failed.
control_socket_recv(o, bufsize) ==
    IF o.kind = "data"
    THEN [none |-> FALSE,
          data |-> SubSeq(o.data, 1, Min(Len(o.data), bufsize)),
          addr |-> o.addr, port |-> o.port]
    ELSE [none |-> TRUE, data |-> <<>>, addr |-> "", port |-> -1]

\* milight_ibox2_control.py, `rx_data, (rx_addr, rx_port) = self.socket_recv()`:
\* unpacking None raises TypeError.
control_unpack(r) ==
    [data |-> r.data, addr |-> r.addr, port |-> r.port, raised |-> r.none]

\* milight_ibox2_control.py, one pass of the loop of connect
ControlConnectAttempt(o) ==
    /\ pc = "connect"
    /\ retry < self.tx_retries
    /\ LET rx == control_unpack(control_socket_recv(o, DefaultBufsize))
           accepted == ~rx.raised /\ connect_accepts(rx.data)
       IN  /\ txlog' = Append(txlog, cmd_start_session)
           /\ nrecv' = nrecv + 1
           /\ allTimeout' = (allTimeout /\ o.kind = "timeout")
           /\ raised' = rx.raised
           /\ self' = IF accepted THEN connect_store(self, rx.data) ELSE self
           /\ calls' = IF accepted THEN 0 ELSE calls
           /\ nframes' = IF accepted THEN 0 ELSE nframes
           /\ IF first22 = 0 /\ o.kind = "data" /\ Len(o.data) = 22
              THEN first22' = retry + 1 /\ rx22' = o.data
              ELSE UNCHANGED <<first22, rx22>>
           /\ IF accepted \/ rx.raised \/ ~(retry + 1 < self.tx_retries)
              THEN pc' = "idle" /\ retry' = 0
              ELSE pc' = "connect" /\ retry' = retry + 1
    /\ UNCHANGED <<light_command, found_ibox_devices, result, op, pre,
                   call, firstAck, validSeen, scanLog, race>>

\* milight_ibox2_control.py, one pass of the loop of send_command
ControlSendAttempt(o) ==
    /\ pc = "send_command"
    /\ retry < self.tx_retries
    /\ LET cmd == command_frame(self, light_command)
           send_seq == self.ibox_seq
           rx == control_unpack(control_socket_recv(o, DefaultBufsize))
           acked == ~rx.raised /\ ack_accepted(rx.data, send_seq)
       IN  /\ self' = [self EXCEPT !.ibox_seq = seq_after_attempt(@, retry)]
           /\ txlog' = Append(txlog, cmd)
           /\ nframes' = nframes + 1
           /\ firstAck' = IF firstAck = 0 /\ MatchingAck(o, cmd)
                          THEN retry + 1 ELSE firstAck
           /\ nrecv' = nrecv + 1
           /\ allTimeout' = (allTimeout /\ o.kind = "timeout")
           /\ raised' = rx.raised
           /\ IF acked \/ rx.raised \/ ~(retry + 1 < self.tx_retries)
              THEN pc' = "idle" /\ retry' = 0
              ELSE pc' = "send_command" /\ retry' = retry + 1
    /\ UNCHANGED <<light_command, found_ibox_devices, result, op, pre,
                   first22, rx22, calls, call, validSeen, scanLog, race>>

\* milight_ibox2_control.py, socket_open (public): creates the socket
\* unless there is one.
control_socket_open(s) ==
    IF ~s.sock_server
    THEN [s EXCEPT !.sock_server = TRUE, !.ibox_connected = FALSE]
    ELSE s

\* milight_ibox2_control.py, socket_close (public, not guarded):
\* self.sock_server.close() raises AttributeError when there is no socket.
control_socket_close(s) ==
    IF ~s.sock_server
    THEN [raised |-> TRUE, self |-> s]
    ELSE [raised |-> FALSE,
          self |-> [s EXCEPT !.sock_server = FALSE, !.ibox_connected = FALSE]]

\* A public call that returns at once: r is what it gives.
ControlCall(name, r) ==
    /\ EnterCall(name)
    /\ call' = NoCall
    /\ raised' = r.raised
    /\ self' = r.self
    /\ light_command' = <<>>
    /\ found_ibox_devices' = <<>>
    /\ txlog' = <<>>
    /\ UNCHANGED <<pc, retry, calls, nframes>>

ControlSocketOpen ==
    ControlCall("socket_open", [raised |-> FALSE, self |-> control_socket_open(self)])

ControlSocketClose == ControlCall("socket_close", control_socket_close(self))

\* milight_ibox2_control.py, scan, one pass of the receive loop: recvfrom(100)
\* is called directly; a timeout ends the loop, any other exception returns
\* None, and an empty datagram is skipped like any other invalid one.
control_scan_receive(s, found, o) ==
    IF o.kind = "timeout"
    THEN [found |-> found, next |-> "list"]
    ELSE IF o.kind # "data"
    THEN [found |-> found, next |-> "none"]
    ELSE LET rx_data == SubSeq(o.data, 1, Min(Len(o.data), ScanBufsize))
         IN  IF Len(rx_data) > 0 /\ Len(rx_data) = 69 /\ At(rx_data, 0) = 24
             THEN IF o.port # (At(rx_data, 49) * 256) + At(rx_data, 50)
                  THEN IF s.verbose
                       THEN [found |-> found, next |-> "none"]
                       ELSE [found |-> found, next |-> "loop"]
                  ELSE LET device == [ip |-> o.addr, port |-> o.port,
                                      mac |-> format_mac(rx_data)]
                       IN  IF ~InList(device, found)
                           THEN [found |-> Append(found, device), next |-> "loop"]
                           ELSE [found |-> found, next |-> "loop"]
             ELSE [found |-> found, next |-> "loop"]

\* milight_ibox2_control.py, scan up to its receive loop
ControlScanStart ==
    /\ Enter("scan")
    /\ self' = control_socket_open(self)
    /\ found_ibox_devices' = <<>>
    /\ txlog' = <<scan_data>>
    /\ pc' = "scan"
    /\ light_command' = <<>>
    /\ UNCHANGED <<retry, calls, nframes>>

ControlScanReceive(o) ==
    /\ pc = "scan"
    /\ LET r == control_scan_receive(self, found_ibox_devices, o)
       IN  /\ nrecv' = nrecv + 1
           /\ allTimeout' = (allTimeout /\ o.kind = "timeout")
           /\ raised' = FALSE
           /\ found_ibox_devices' = IF r.next = "loop" THEN r.found ELSE <<>>
           /\ pc' = IF r.next = "loop" THEN "scan" ELSE "idle"
           /\ result' = IF r.next = "list"
                        THEN [none |-> FALSE, devices |-> r.found]
                        ELSE NoResult
    /\ validSeen' = IF ValidDiscovery(o) THEN validSeen \cup {o} ELSE validSeen
    /\ scanLog' = Append(scanLog, o)
    /\ UNCHANGED <<self, retry, light_command, op, pre, txlog, first22, rx22,
                   calls, nframes, call, firstAck, race>>

\* milight_ibox2_control.py, the send_* operations: the parameter checks,
\* which print and return, not raise
control_send_valid(name, value, zone) ==
    LET zone_ok == ~((zone < 0) \/ (zone > 4))
    IN  CASE name = "send_rgb_color" ->
                 ~((value < 0) \/ (value > 255)) /\ zone_ok
          [] name = "send_saturation" ->
                 ~((zone < 0) \/ (zone > 100)) /\ zone_ok
          [] name = "send_brightness" ->
                 ~((value < 0) \/ (value > 100)) /\ zone_ok
          [] name = "send_color_temperature" ->
                 ~((value < 2700) \/ (value > 6500))
          [] name = "send_mode" ->
                 ~((value < 1) \/ (value > 9)) /\ zone_ok
          [] OTHER -> zone_ok

\* milight_ibox2_control.py, the send_* operations: the list handed to
\* bytearray()
control_send_bytes(name, value, zone, lamp_type) ==
    CASE name = "send_light_on" -> <<49, 0, 0, lamp_type, 4, 1, 0, 0, 0, zone, 0>>
      [] name = "send_light_off" -> <<49, 0, 0, lamp_type, 4, 2, 0, 0, 0, zone, 0>>
      [] name = "send_night_light_on" ->
             <<49, 0, 0, lamp_type, 4, 5, 0, 0, 0, zone, 0>>
      [] name = "send_white_light_on" ->
             <<49, 0, 0, lamp_type, 5, 100, 0, 0, 0, zone, 0>>
      [] name = "send_rgb_color" ->
             <<49, 0, 0, lamp_type, 1, value, value, value, value, zone, 0>>
      [] name = "send_saturation" ->
             <<49, 0, 0, lamp_type, 2, value, 0, 0, 0, zone, 0>>
      [] name = "send_brightness" ->
             <<49, 0, 0, lamp_type, 3, value, 0, 0, 0, zone, 0>>
      [] name = "send_color_temperature" ->
             <<49, 0, 0, lamp_type, 5, temperature_byte(value), 0, 0, 0, zone, 0>>
      [] name = "send_mode" -> <<49, 0, 0, lamp_type, 6, value, 0, 0, 0, zone, 0>>
      [] name = "send_mode_speed_decrease" ->
             <<49, 0, 0, lamp_type, 4, 4, 0, 0, 0, zone, 0>>
      [] name = "send_mode_speed_increase" ->
             <<49, 0, 0, lamp_type, 4, 3, 0, 0, 0, zone, 0>>
      [] name = "send_link" -> <<61, 0, 0, lamp_type, 0, 0, 0, 0, 0, zone, 0>>
      [] name = "send_unlink" -> <<62, 0, 0, lamp_type, 0, 0, 0, 0, 0, zone, 0>>

\* A send_* operation up to its call of send_command: it returns without
\* sending, raises in bytearray(), or hands over the light command.
control_send(c) ==
    IF ~control_send_valid(c.name, c.value, c.zone.v)
    THEN [sent |-> FALSE, raised |-> FALSE, cmd |-> <<>>]
    ELSE IF ~bytearray_ok(control_send_bytes(c.name, c.value, c.zone.v, c.lamp_type.v))
    THEN [sent |-> FALSE, raised |-> TRUE, cmd |-> <<>>]
    ELSE [sent |-> TRUE, raised |-> FALSE,
          cmd |-> control_send_bytes(c.name, c.value, c.zone.v, c.lamp_type.v)]

ControlSend(c) ==
    LET r == control_send(c)
    IN  /\ EnterCall(IF r.sent THEN "send_command" ELSE c.name)
        /\ call' = c
        /\ raised' = r.raised
        /\ IF ~r.sent
           THEN /\ light_command' = <<>>
                /\ txlog' = <<>>
                /\ found_ibox_devices' = <<>>
                /\ UNCHANGED <<self, pc, retry, calls, nframes>>
           ELSE SendCommandBody(r.cmd)

ControlVariantCommands == {LightOnCommand, Zeros(10)}

\* The send_* calls tried: each operation once with a valid parameter, and
\* the ways of being refused.
ControlSendCalls ==
    { Control("send_light_on", 0, Some(0), Some(RGBWW_TYPE)),
      Control("send_light_off", 0, Some(4), Some(RGBWW_TYPE)),
      Control("send_night_light_on", 0, Some(1), Some(BRIDGE_TYPE)),
      Control("send_white_light_on", 0, Some(2), Some(WALLWASHER_TYPE)),
      Control("send_rgb_color", 255, Some(1), Some(RGBWW_TYPE)),
      Control("send_saturation", 100, Some(1), Some(RGBWW_TYPE)),
      Control("send_brightness", 75, Some(1), Some(RGBWW_TYPE)),
      Control("send_color_temperature", TempMax, Some(1), Some(RGBWW_TYPE)),
      Control("send_mode", 9, Some(1), Some(RGBWW_TYPE)),
      Control("send_mode_speed_decrease", 0, Some(1), Some(RGBWW_TYPE)),
      Control("send_mode_speed_increase", 0, Some(1), Some(RGBWW_TYPE)),
      Control("send_link", 0, Some(1), Some(RGBWW_TYPE)),
      Control("send_unlink", 0, Some(0), Some(RGBWW_TYPE)),
      Control("send_light_on", 0, Some(5), Some(RGBWW_TYPE)),
      Control("send_light_on", 0, Some(1), Some(263)),
      Control("send_rgb_color", 256, Some(1), Some(RGBWW_TYPE)),
      Control("send_saturation", 300, Some(1), Some(RGBWW_TYPE)),
      Control("send_brightness", 101, Some(1), Some(RGBWW_TYPE)),
      Control("send_color_temperature", TempMin - 1, Some(1), Some(RGBWW_TYPE)),
      Control("send_color_temperature", TempMin, Some(5), Some(RGBWW_TYPE)),
      Control("send_mode", 0, Some(1), Some(RGBWW_TYPE)) }

\* What the transport delivers to the scan of milight_ibox2_control.py.
ControlScanOutcomes ==
    {RxTimeout, RxError,
     FromBox(DiscoveryReply(24, MacA, BoxPort)),
     Datagram(DiscoveryReply(24, MacA, BoxPort), BoxAddr, OtherPort),
     FromBox(<<>>)}

InitControl == InitWith({ZoneRetries, MaxRetries}, BOOLEAN)

NextControl ==
    \/ ConnectStart
    \/ \E o \in ConnectOutcomes : ControlConnectAttempt(o)
    \/ Disconnect
    \/ IsConnected
    \/ ControlSocketOpen
    \/ ControlSocketClose
    \/ ControlScanStart
    \/ \E o \in ControlScanOutcomes :
          (o.kind = "data" => nrecv < MaxCalls) /\ ControlScanReceive(o)
    \/ \E c \in ControlVariantCommands : calls < MaxCalls /\ SendCommandStart(c)
    \/ \E c \in ControlSendCalls : calls < ZoneCalls /\ ControlSend(c)
    \/ \E o \in AckOutcomes(self.ibox_seq) : ControlSendAttempt(o)

SpecControl == InitControl /\ [][NextControl]_vars

(***************************************************************************)
(* Every receive is a blocking call bounded by the socket timeout, so a    *)
(* retry loop that has been entered always takes its next step.            *)
(***************************************************************************)
FairSpec ==
    /\ Spec
    /\ WF_vars(\E o \in ConnectOutcomes : ConnectAttempt(o))
    /\ WF_vars(\E o \in AckOutcomes(self.ibox_seq) : SendAttempt(o))

(***************************************************************************)
(* Properties.                                                             *)
(***************************************************************************)
Returned(name) == op = name /\ pc = "idle"

\* the send_command call entered last passed its checks on a Connected session
RanConnected ==
    op = "send_command" /\ pre.ibox_connected /\ Len(light_command) = 11

SeqByte(frame) == At(frame, 8)

\* C1, safety part: while every receive of a send_command call on a
\* Connected session has timed out, the call has sent one command frame per
\* receive and raised nothing, and once it has returned it has made exactly
\* tx_retries attempts.
C1_AttemptsWhenAllTimeout ==
    (RanConnected /\ allTimeout) =>
        /\ ~raised
        /\ Len(txlog) = nrecv
        /\ \A i \in 1..Len(txlog) : Len(txlog[i]) = 22 /\ At(txlog[i], 0) = 128
        /\ pc = "send_command" => (nrecv = retry /\ retry < self.tx_retries)
        /\ pc = "idle" => nrecv = self.tx_retries

\* C1: if every receive during one send_command call on a Connected session
\* times out, the call performs exactly tx_retries send attempts, one
\* command frame each, and then returns normally without raising.
C1_RetryTermination ==
    /\ [](C1_AttemptsWhenAllTimeout)
    /\ (pc = "send_command") ~> (pc = "idle")

C1_Witness ==
    /\ RanConnected /\ Returned("send_command") /\ allTimeout
    /\ self.tx_retries >= 2
    /\ Len(txlog) = self.tx_retries

\* C2 as stated: after a send_command call on a Connected session in which
\* every receive timed out, the sequence number is (sequence before + 1)
\* mod 256, for every tx_retries >= 1.
C2_SeqAdvancesByOne ==
    (RanConnected /\ Returned("send_command") /\ allTimeout
        /\ self.tx_retries >= 1) =>
        self.ibox_seq = (pre.ibox_seq + 1) % ByteMask

\* C2 amended: after a send_command call on a Connected session in which
\* every receive timed out, the sequence number is (sequence before +
\* tx_retries) mod 256: one step per attempt.
C2_SeqAdvancesByRetries ==
    (RanConnected /\ Returned("send_command") /\ allTimeout
        /\ self.tx_retries >= 1) =>
        self.ibox_seq = (pre.ibox_seq + self.tx_retries) % ByteMask

C2_Witness ==
    /\ RanConnected /\ Returned("send_command") /\ allTimeout
    /\ self.tx_retries >= 2
    /\ pre.ibox_seq + self.tx_retries >= ByteMask
    /\ self.ibox_seq < pre.ibox_seq

\* C3 as stated: within one send_command call every retry frame carries the
\* sequence byte of the first attempt's frame, and the sequence counter is
\* incremented once per call.
C3_SameSeqInEveryRetry ==
    RanConnected =>
        /\ \A i \in 1..Len(txlog) : SeqByte(txlog[i]) = SeqByte(txlog[1])
        /\ (pc = "idle" /\ Len(txlog) >= 1) =>
               self.ibox_seq = (pre.ibox_seq + 1) % ByteMask

\* C3 amended: within one send_command call the frame of attempt i carries
\* the sequence byte (sequence at entry + i - 1) mod 256, so each retry
\* frame carries the previous frame's byte plus one, and the sequence
\* counter is incremented once per attempt.
C3_SeqPerAttempt ==
    RanConnected =>
        /\ \A i \in 1..Len(txlog) :
               SeqByte(txlog[i]) = (pre.ibox_seq + i - 1) % ByteMask
        /\ self.ibox_seq = (pre.ibox_seq + Len(txlog)) % ByteMask

C3_Witness ==
    /\ RanConnected /\ Returned("send_command")
    /\ Len(txlog) >= 3
    /\ ~allTimeout
    /\ SeqByte(txlog[3]) # SeqByte(txlog[1])

\* C4 as stated: the first frame of the 257th send_command call after a
\* handshake carries the sequence number of the 1st call, 0, whatever the
\* 256 calls before it received.
C4_WrapsAfter256Calls ==
    (RanConnected /\ Len(txlog) >= 1) =>
        /\ calls = 1 => SeqByte(txlog[1]) = 0
        /\ calls = ByteMask + 1 => SeqByte(txlog[1]) = 0

\* C4 amended: the first frame of the 1st call after a handshake carries 0,
\* and the first frame of the 257th call carries (number of command frames
\* the 256 calls before it sent) mod 256; that is 0 when each of the 256
\* calls made a single attempt.
C4_WrapsAfter256Frames ==
    (RanConnected /\ Len(txlog) >= 1) =>
        /\ calls = 1 => SeqByte(txlog[1]) = 0
        /\ calls = ByteMask + 1 =>
               SeqByte(txlog[1]) = (nframes - Len(txlog)) % ByteMask

C4_Witness ==
    /\ RanConnected /\ Len(txlog) >= 1
    /\ calls = ByteMask + 1
    /\ nframes - Len(txlog) = ByteMask
    /\ SeqByte(txlog[1]) = 0

\* C5: when the first session-start frame of connect is answered by a
\* 22-byte reply, connect returns Connected with ibox_session_id1 = reply
\* byte 19, ibox_session_id2 = reply byte 20 and ibox_seq = 0, whatever the
\* sequence number was before.
C5_ConnectFirstReply ==
    (Returned("connect") /\ first22 = 1) =>
        /\ self.ibox_connected
        /\ self.ibox_session_id1 = At(rx22, 19)
        /\ self.ibox_session_id2 = At(rx22, 20)
        /\ self.ibox_seq = 0
        /\ ~raised

C5_Witness ==
    /\ Returned("connect") /\ first22 = 1
    /\ pre.ibox_seq # 0
    /\ At(rx22, 19) # At(rx22, 20)

\* C6: connect sends nothing after the first reply of length 22: the number
\* of session-start frames sent is the index of the first attempt that
\* received 22 bytes, the call has returned, and the ids stored are those
\* of that reply.
C6_ConnectStopsAtFirstReply ==
    op = "connect" =>
        /\ \A i \in 1..Len(txlog) : txlog[i] = cmd_start_session
        /\ first22 # 0 =>
               /\ pc = "idle"
               /\ Len(txlog) = first22
               /\ self.ibox_session_id1 = At(rx22, 19)
               /\ self.ibox_session_id2 = At(rx22, 20)

C6_Witness ==
    /\ Returned("connect")
    /\ first22 >= 2
    /\ first22 < self.tx_retries
    /\ Slice(rx22, 0, 7) # resp_start_session

\* C7: if no attempt of connect receives a 22-byte reply, connect sends
\* exactly tx_retries session-start frames, returns without raising and
\* leaves the session Disconnected with both ids -1.
C7_ConnectExhausted ==
    (Returned("connect") /\ first22 = 0) =>
        /\ Len(txlog) = self.tx_retries
        /\ nrecv = self.tx_retries
        /\ \A i \in 1..Len(txlog) : txlog[i] = cmd_start_session
        /\ ~raised
        /\ ~self.ibox_connected
        /\ self.ibox_session_id1 = -1
        /\ self.ibox_session_id2 = -1

C7_Witness ==
    /\ Returned("connect") /\ first22 = 0
    /\ self.tx_retries >= 2
    /\ nrecv = self.tx_retries
    /\ ~allTimeout
    /\ pre.ibox_connected

\* C8: disconnect is idempotent: in every reachable state a second
\* disconnect leaves what the first left, the first ends Disconnected, on a
\* Disconnected session it changes nothing, and the call raises nothing.
C8_DisconnectIdempotent ==
    /\ disconnect(disconnect(self)) = disconnect(self)
    /\ ~disconnect(self).ibox_connected
    /\ ~self.ibox_connected => disconnect(self) = self
    /\ op = "disconnect" =>
           /\ pc = "idle"
           /\ ~raised
           /\ ~self.ibox_connected
           /\ self = disconnect(pre)
           /\ ~pre.ibox_connected => self = pre

C8_Witness ==
    /\ Returned("disconnect")
    /\ ~pre.ibox_connected
    /\ ~pre.sock_server
    /\ pre.ibox_session_id1 >= 0
    /\ self = pre

\* one step of the client, as far as the Connected flag goes
C9_Step ==
    /\ (~self.ibox_connected /\ self'.ibox_connected) =>
           /\ pc = "connect" /\ op = "connect"
           /\ first22 = 0 /\ first22' = retry + 1
    /\ (self.ibox_connected /\ ~self'.ibox_connected) =>
           /\ pc = "idle"
           /\ op' \in {"connect", "disconnect"}
    /\ (pc = "idle" /\ op' = "disconnect" /\ self.ibox_connected) =>
           ~self'.ibox_connected
    /\ op' \in {"send_command", "scan"} =>
           self'.ibox_connected = self.ibox_connected

\* C9: a new client is Disconnected; only a connect attempt that receives a
\* 22-byte reply moves it to Connected; disconnect from Connected moves it
\* to Disconnected; no step of send_command or scan changes the flag.
C9_SessionStateMachine ==
    /\ ~self.ibox_connected
    /\ [][C9_Step]_vars

C9_Witness ==
    /\ Returned("scan")
    /\ nrecv >= 2
    /\ pre.ibox_connected
    /\ self.ibox_connected

\* C10: send_command on a Disconnected session sends no frame, performs no
\* receive, raises nothing and leaves the instance as it was.
C10_SendWhileDisconnected ==
    (op = "send_command" /\ ~pre.ibox_connected) =>
        /\ pc = "idle"
        /\ txlog = <<>>
        /\ nrecv = 0
        /\ ~raised
        /\ self = pre

C10_Witness ==
    /\ Returned("send_command")
    /\ ~pre.ibox_connected
    /\ pre.sock_server
    /\ Len(light_command) = 11
    /\ self.tx_retries >= 1

\* C11: send_command stops at the first attempt answered by an 8-byte reply
\* with the header 88 00 00 00 03 00 and the sequence byte of the frame just
\* sent, and sends nothing afterwards; any other outcome of an attempt
\* (timeout, other length, wrong header, wrong sequence byte) leads to the
\* next attempt while attempts remain; never more than tx_retries frames.
C11_StopsAtFirstAck ==
    RanConnected =>
        /\ Len(txlog) <= self.tx_retries
        /\ firstAck # 0 => (pc = "idle" /\ Len(txlog) = firstAck)
        /\ (firstAck = 0 /\ pc = "idle") => Len(txlog) = self.tx_retries
        /\ (firstAck = 0 /\ pc = "send_command") =>
               (Len(txlog) = retry /\ retry < self.tx_retries)

C11_Witness ==
    /\ RanConnected /\ Returned("send_command")
    /\ firstAck >= 2
    /\ firstAck < self.tx_retries
    /\ Len(txlog) = firstAck

\* C12: every command frame sent has 22 bytes: the header 80 00 00 00 11,
\* the two session ids, 00, the sequence byte, 00, then the 11 command
\* bytes unchanged, then (sum of the 11 command bytes) mod 256; an all-zero
\* body gives checksum 0.
C12_FrameLayout ==
    RanConnected =>
        \A i \in 1..Len(txlog) :
            LET f == txlog[i]
                c == light_command
            IN  /\ Len(f) = 22
                /\ SubSeq(f, 1, 5) = <<128, 0, 0, 0, 17>>
                /\ f[6] = pre.ibox_session_id1
                /\ f[7] = pre.ibox_session_id2
                /\ f[8] = 0
                /\ f[9] \in 0..255
                /\ f[10] = 0
                /\ SubSeq(f, 11, 21) = c
                /\ f[22] = (c[1] + c[2] + c[3] + c[4] + c[5] + c[6] + c[7]
                              + c[8] + c[9] + c[10] + c[11]) % 256
                /\ c = <<0, 0, 0, 0, 0, 0, 0, 0, 0, 0, 0>> => f[22] = 0

C12_Witness ==
    /\ RanConnected
    /\ Len(txlog) >= 2
    /\ SumBytes(light_command) >= 256
    /\ txlog[2][22] = SumBytes(light_command) - 256

\* the control operation called last was `name`, and it handed its light
\* command to send_command
Accepted(name) == call.name = name /\ op = "send_command" /\ ~raised

\* the control operation called last was `name`, and it raised before
\* send_command: nothing was sent and the client is as it was
Rejected(name) ==
    /\ call.name = name
    /\ op = "control"
    /\ raised
    /\ pc = "idle"
    /\ txlog = <<>>
    /\ self = pre

\* byte `i` (from 0) of the light command, as it is in every frame the call sent
CommandByteSent(i, b) ==
    /\ At(light_command, i) = b
    /\ \A j \in 1..Len(txlog) : At(txlog[j], 10 + i) = b

\* C13: temperature(K) with K in 2700..6500 sends subcommand 0x05 with a
\* data1 byte in 0..100 that is 0 for 2700 and 100 for 6500 and is monotone
\* (no smaller K has a larger byte, no larger K has a smaller one); with K
\* outside 2700..6500 it raises, sends no frame and leaves the client,
\* its sequence number included, unchanged.
C13_TemperatureEncoding ==
    call.name = "temperature" =>
        IF call.value >= 2700 /\ call.value <= 6500
        THEN /\ Accepted("temperature")
             /\ CommandByteSent(4, 5)
             /\ \E d \in 0..100 :
                  /\ CommandByteSent(5, d)
                  /\ call.value = 2700 => d = 0
                  /\ call.value = 6500 => d = 100
                  /\ \A k \in 2700..6500 :
                       /\ k <= call.value => temperature_byte(k) <= d
                       /\ k >= call.value => temperature_byte(k) >= d
        ELSE /\ Rejected("temperature")
             /\ self.ibox_seq = pre.ibox_seq

C13_Witness ==
    /\ Accepted("temperature")
    /\ call.value = 6500
    /\ Returned("send_command")
    /\ Len(txlog) = 1
    /\ At(txlog[1], 15) = 100

\* C14 as stated: the data1 byte of temperature(K) is the integer nearest
\* to (K - 2700) / 38.
C14_NearestInteger ==
    Accepted("temperature") =>
        \E d \in 0..100 :
            /\ CommandByteSent(5, d)
            /\ 2 * (call.value - 2700) >= (2 * d - 1) * 38
            /\ 2 * (call.value - 2700) <= (2 * d + 1) * 38

\* C14, corrected: the data1 byte of temperature(K) is the floor of
\* (K - 2700) / 38, so K = 2737 gives 0 and K = 2738 gives 1.
C14_Floor ==
    Accepted("temperature") =>
        \E d \in 0..100 :
            /\ CommandByteSent(5, d)
            /\ d * 38 <= call.value - 2700
            /\ call.value - 2700 < (d + 1) * 38
            /\ call.value = 2737 => d = 0
            /\ call.value = 2738 => d = 1

C14_Witness ==
    /\ Accepted("temperature")
    /\ call.value = 2737
    /\ Len(txlog) = 1
    /\ At(txlog[1], 15) = 0

\* C15: brightness outside 0..100, mode outside 1..9 and color_raw outside
\* 0..255 raise before any I/O (no frame; sequence number, session ids and
\* connected flag as before); inside the domain the operation makes one
\* send_command call with subcommand 0x03, 0x06 or 0x01 and data1 = value.
C15_ValueValidation ==
    \A n \in {"brightness", "mode", "color_raw"} :
        call.name = n =>
            LET lo == IF n = "mode" THEN 1 ELSE 0
                hi == IF n = "brightness" THEN 100 ELSE IF n = "mode" THEN 9 ELSE 255
                sub == IF n = "brightness" THEN 3 ELSE IF n = "mode" THEN 6 ELSE 1
            IN  IF call.value >= lo /\ call.value <= hi
                THEN /\ Accepted(n)
                     /\ CommandByteSent(0, 49)
                     /\ CommandByteSent(4, sub)
                     /\ CommandByteSent(5, call.value)
                     /\ pc = "idle" => Len(txlog) >= 1
                ELSE /\ Rejected(n)
                     /\ self.ibox_seq = pre.ibox_seq
                     /\ self.ibox_session_id1 = pre.ibox_session_id1
                     /\ self.ibox_session_id2 = pre.ibox_session_id2
                     /\ self.ibox_connected = pre.ibox_connected

C15_Witness ==
    /\ Rejected("brightness")
    /\ call.value = 150
    /\ pre.ibox_connected
    /\ self.ibox_connected

\* the zone the call addresses: the one supplied, else the instance default
EffectiveZone == IF call.zone.some THEN call.zone.v ELSE pre.zone

\* C16 as stated: saturation with a value outside 0..100 and a valid zone
\* raises and sends no frame.
C16_SaturationRange ==
    (/\ call.name = "saturation"
     /\ (call.value < 0 \/ call.value > 100)
     /\ EffectiveZone \in 0..4)
        => Rejected("saturation")

\* C17 as stated: a control operation called with an explicit zone outside
\* 0..4 raises and sends no frame, and the zone byte (command byte 9) of
\* every command frame sent is in 0..4.
C17_ZoneValidated ==
    /\ (call.name # "" /\ call.zone.some /\ call.zone.v \notin 0..4)
           => Rejected(call.name)
    /\ op = "send_command" =>
           \A i \in 1..Len(txlog) : At(txlog[i], 19) \in 0..4

\* C18 as stated: link and unlink with effective zone 0 raise, and no frame
\* with opcode 0x3D or 0x3E is sent.
C18_LinkZones ==
    (call.name \in {"link", "unlink"} /\ EffectiveZone = 0) =>
        /\ Rejected(call.name)
        /\ \A i \in 1..Len(txlog) : At(txlog[i], 10) \notin {61, 62}

\* C19 as stated: in every frame of a control operation the zone byte is
\* the zone supplied (0..4, 0 included) and the lamp-type byte is the lamp
\* type supplied (0..255, 0 included), whatever the instance defaults are.
C19_ExplicitOverrides ==
    (call.name # "" /\ op = "send_command" /\ ~raised) =>
        /\ (call.zone.some /\ call.zone.v \in 0..4) =>
               CommandByteSent(9, call.zone.v)
        /\ (call.lamp_type.some /\ call.lamp_type.v \in 0..255) =>
               CommandByteSent(3, call.lamp_type.v)

\* C20 as stated: scan returns a collection without duplicates in which
\* every (address, port, MAC) of a valid response it received appears once.
C20_EachDeviceOnce ==
    Returned("scan") =>
        /\ ~result.none
        /\ \A i, j \in 1..Len(result.devices) :
               result.devices[i] = result.devices[j] => i = j
        /\ \A o \in validSeen :
               Cardinality({i \in 1..Len(result.devices) :
                               result.devices[i] =
                                   [ip |-> o.addr, port |-> o.port,
                                    mac |-> format_mac(o.data)]}) = 1

\* receive i of the scan delivered nothing: it timed out, failed, or read
\* an empty datagram
NoData(i) == scanLog[i].kind # "data" \/ scanLog[i].data = <<>>

\* the device scan records for the datagram o
DeviceOf(o) == [ip |-> o.addr, port |-> o.port, mac |-> format_mac(o.data)]

\* C21 as stated: scan sends the discovery frame once and never again; it
\* goes on receiving, whatever fails the length/tag check, until the first
\* receive that times out (delivers nothing), and then returns the
\* collection accumulated, which is empty when nothing valid arrived.
C21_ScanUntilTimeout ==
    op = "scan" =>
        /\ txlog = <<scan_data>>
        /\ pc = "scan" => \A i \in 1..Len(scanLog) : ~NoData(i)
        /\ pc = "idle" =>
               /\ scanLog # <<>>
               /\ NoData(Len(scanLog))
               /\ \A i \in 1..(Len(scanLog) - 1) : ~NoData(i)
               /\ ~result.none
               /\ {result.devices[i] : i \in 1..Len(result.devices)}
                      = {DeviceOf(o) : o \in validSeen}

\* a discovery response that passes the length/tag check and whose embedded
\* port is not the port it came from
PortMismatch(o) ==
    /\ o.kind = "data"
    /\ Len(o.data) = 69
    /\ At(o.data, 0) = 24
    /\ At(o.data, 49) * 256 + At(o.data, 50) # o.port

\* C22 as stated: a discovery response with a port mismatch is not added to
\* the result and does not end the scan, and the scan returns every valid
\* device it received, before or after it, whatever the verbose setting.
C22_PortMismatchSkipped ==
    op = "scan" =>
        \A i \in 1..Len(scanLog) :
            PortMismatch(scanLog[i]) =>
                /\ pc = "idle" => i < Len(scanLog)
                /\ pc = "idle" =>
                       /\ ~result.none
                       /\ \A o \in validSeen :
                              InList(DeviceOf(o), result.devices)
                       /\ ~InList(DeviceOf(scanLog[i]), result.devices)

\* C23 as stated: while the session is not connected both session ids are -1.
C23_IdsOnlyWhileConnected ==
    ~self.ibox_connected =>
        (self.ibox_session_id1 = -1 /\ self.ibox_session_id2 = -1)

\* C24: a 22-byte reply to connect whose first 7 bytes are not
\* 28 00 00 00 11 00 02 still ends connect with the session Connected, the
\* ids taken from bytes 19 and 20 of that reply and sequence number 0.
C24_HeaderMismatchAccepted ==
    (/\ op = "connect"
     /\ first22 # 0
     /\ Len(rx22) = 22
     /\ SubSeq(rx22, 1, 7) # <<40, 0, 0, 0, 17, 0, 2>>)
        => /\ pc = "idle"
           /\ ~raised
           /\ self.ibox_connected
           /\ self.ibox_session_id1 = rx22[20]
           /\ self.ibox_session_id2 = rx22[21]
           /\ self.ibox_seq = 0

C24_Witness ==
    /\ Returned("connect")
    /\ first22 = 1
    /\ rx22[7] # 2
    /\ self.ibox_connected
    /\ self.ibox_session_id1 = rx22[20]

\* C25: connect called on a Connected session leaves it Disconnected with
\* both ids -1 for as long as no 22-byte reply has arrived: during the
\* retry loop, and after it when every attempt failed.
C25_ConnectInvalidatesFirst ==
    (op = "connect" /\ pre.ibox_connected /\ first22 = 0) =>
        /\ ~self.ibox_connected
        /\ self.ibox_session_id1 = -1
        /\ self.ibox_session_id2 = -1

C25_Witness ==
    /\ op = "connect"
    /\ pre.ibox_connected
    /\ pre.ibox_session_id1 >= 0
    /\ pc = "connect"
    /\ retry >= 1
    /\ first22 = 0
    /\ ~self.ibox_connected

\* the send_command call has returned from a Connected session after
\* tx_retries attempts, none answered by a matching acknowledgment
Exhausted ==
    /\ RanConnected
    /\ Returned("send_command")
    /\ firstAck = 0
    /\ Len(txlog) = self.tx_retries

\* C26: a send_command call that used up its retries without a valid
\* acknowledgment raised nothing and left the session Connected, with the
\* ids it had and the socket open; a send_command called next passes its
\* checks, leaves the session as it found it and, when there are retries,
\* goes on to send a frame that carries those ids.
C26_ExhaustedState ==
    Exhausted =>
        /\ ~raised
        /\ self.ibox_connected
        /\ self.sock_server
        /\ self.ibox_session_id1 = pre.ibox_session_id1
        /\ self.ibox_session_id2 = pre.ibox_session_id2
        /\ send_command_runs(self, LightOnCommand)
        /\ At(command_frame(self, LightOnCommand), 5) = pre.ibox_session_id1
        /\ At(command_frame(self, LightOnCommand), 6) = pre.ibox_session_id2

\* a step from such a state that enters send_command with an 11-byte command
C26_FollowingSend ==
    (/\ Exhausted
     /\ self.tx_retries > 0
     /\ op' = "send_command"
     /\ txlog' = <<>>
     /\ Len(light_command') = 11)
        => /\ pc' = "send_command"
           /\ self' = self
           /\ pre' = self

C26_ExhaustedSendHarmless == []C26_ExhaustedState /\ [][C26_FollowingSend]_vars

C26_Witness ==
    /\ Exhausted
    /\ self.tx_retries >= 2
    /\ ~allTimeout
    /\ self.ibox_connected
    /\ self.ibox_seq # pre.ibox_seq

\* C27 as stated: when disconnect has returned the socket is closed,
\* whatever was called before.
C27_ClosedAfterDisconnect == Returned("disconnect") => ~self.sock_server

\* C28, the serialized half: when the host lets one thread at a time into
\* send_command, two frames that carry the same sequence byte are at least
\* 256 attempts apart, and no call accepts the acknowledgment of another
\* call's frame.  The unserialized half is C28_Witness, a reachable state.
C28_SerializedDistinct ==
    race.serialized =>
        /\ race.reuse.gap = 0 \/ race.reuse.gap >= 256
        /\ ~race.wrongAck
        /\ \A t \in RaceThreads : race.th[t].pc # "raised"

\* without serialization: the frames of two different calls carry the same
\* sequence byte, and one call has accepted the other's acknowledgment
C28_Witness ==
    /\ ~race.serialized
    /\ race.reuse.gap \in 1..255
    /\ ~race.reuse.sameCall
    /\ race.wrongAck

\* the datagram the scan received last
LastScanRx == scanLog[Len(scanLog)]

\* a step in which the scan receives a datagram
ScanReceived == pc = "scan" /\ Len(scanLog') = Len(scanLog) + 1

\* C29, the loop has no bound of its own: a datagram that is not empty,
\* valid or not, never ends the scan, however many were received before.
C29_OnlyNoDataEnds ==
    (/\ ScanReceived
     /\ LastScanRx'.kind = "data"
     /\ LastScanRx'.data # <<>>)
        => pc' = "scan"

\* C29 as stated: when the transport reports a receive timeout sooner or
\* later, a running scan returns; and only a receive that delivers nothing
\* ends it: while datagrams keep arriving, valid or not, scan keeps
\* receiving.  The second half fails for a verbose client, whose scan
\* returns on a response with a port mismatch (see C22).
C29_ScanReturns ==
    /\ (pc = "scan") ~> (pc = "idle" /\ op = "scan")
    /\ [][C29_OnlyNoDataEnds]_vars

\* the value of a hexadecimal digit
HexValue(c) ==
    CASE c = "0" -> 0 [] c = "1" -> 1 [] c = "2" -> 2 [] c = "3" -> 3
      [] c = "4" -> 4 [] c = "5" -> 5 [] c = "6" -> 6 [] c = "7" -> 7
      [] c = "8" -> 8 [] c = "9" -> 9 [] c = "A" -> 10 [] c = "B" -> 11
      [] c = "C" -> 12 [] c = "D" -> 13 [] c = "E" -> 14 [] c = "F" -> 15
      [] OTHER -> -1

\* device d is what the claim has recorded for the datagram o
RecordedFor(d, o) ==
    /\ d.ip = o.addr
    /\ d.port = o.port
    /\ Len(d.mac) = 17
    /\ \A k \in 1..5 : d.mac[3 * k] = ":"
    /\ \A k \in 0..5 :
           16 * HexValue(d.mac[3 * k + 1]) + HexValue(d.mac[3 * k + 2])
               = o.data[7 + k]

\* C30, one receive of the scan: a datagram of 69 bytes with byte 0 = 0x18
\* whose bytes 49..50 give its source port is in the list afterwards, as a
\* device with its source address and port and the MAC of its bytes 6..11,
\* appended unless the list had that device; any other datagram leaves the
\* list as it was.
C30_Step ==
    ScanReceived =>
        LET o == LastScanRx'
            found == found_ibox_devices
            new == found_ibox_devices'
        IN  IF /\ o.kind = "data"
               /\ Len(o.data) = 69
               /\ o.data[1] = 24
               /\ o.data[50] * 256 + o.data[51] = o.port
            THEN /\ pc' = "scan"
                 /\ \E i \in 1..Len(new) : RecordedFor(new[i], o)
                 /\ \/ new = found
                    \/ /\ Len(new) = Len(found) + 1
                       /\ SubSeq(new, 1, Len(found)) = found
                       /\ RecordedFor(new[Len(new)], o)
                       /\ \A j \in 1..Len(found) : found[j] # new[Len(new)]
            ELSE /\ pc' = "scan" => new = found
                 /\ (pc' = "idle" /\ ~result'.none) => result'.devices = found

C30_AddedExactlyWhenValid == [][C30_Step]_vars

C30_Witness ==
    /\ pc = "scan"
    /\ Len(scanLog) = 3
    /\ PortMismatch(scanLog[1])
    /\ Len(scanLog[2].data) = 69 /\ scanLog[2].data[1] # 24
    /\ found_ibox_devices =
           <<[ip |-> "10.10.100.9", port |-> 5987,
              mac |-> <<"F", "0", ":", "F", "E", ":", "6", "B", ":",
                        "A", "B", ":", "C", "D", ":", "E", "F">>]>>

\* the session state of a client: connected flag, session ids, sequence
SessionState(s) ==
    <<s.ibox_connected, s.ibox_session_id1, s.ibox_session_id2, s.ibox_seq>>

\* C31, one step: a step of scan, of is_connected, of a setter or of a
\* control operation that raised for its parameter leaves the connected
\* flag, both session ids and the sequence number as they were.
C31_Step ==
    op' \in {"scan", "is_connected", "zone", "lamp_type", "control"} =>
        SessionState(self') = SessionState(self)

\* C31: the session state is changed by connect, disconnect and
\* send_command only; scan on a Connected session leaves it Connected.
C31_SessionFrame ==
    /\ [][C31_Step]_vars
    /\ [](Returned("scan") /\ pre.ibox_connected => self.ibox_connected)

C31_Witness ==
    /\ Returned("scan")
    /\ nrecv >= 2
    /\ pre.ibox_connected
    /\ SessionState(self) = <<TRUE, 17, 0, 1>>

\* C32: in the client of milight_ibox2_control.py, a call of connect or
\* send_command whose receives have all timed out has not raised, and has
\* made tx_retries attempts once it has returned.
C32_TimeoutIsFailedAttempt ==
    (op \in {"connect", "send_command"} /\ nrecv > 0 /\ allTimeout) =>
        /\ ~raised
        /\ pc = "idle" => nrecv = pre.tx_retries

\* C33: the sequence number is (number of command frames sent since the
\* last successful connect) mod 256, and frame number n since that connect
\* (n = 1 for the first one, retries counted) carries (n - 1) mod 256.
C33_ConsecutiveSequence ==
    /\ self.ibox_seq = nframes % 256
    /\ RanConnected =>
           /\ Len(txlog) <= nframes
           /\ \A i \in 1..Len(txlog) :
                  txlog[i][9] = (nframes - Len(txlog) + i - 1) % 256

C33_Witness ==
    /\ RanConnected
    /\ nframes = 257
    /\ Len(txlog) = 2
    /\ txlog[1][9] = 255
    /\ txlog[2][9] = 0
    /\ self.ibox_seq = 1

\* a step of send_command's loop in which the receive delivers the
\* acknowledgement of frame j of the running call, an earlier attempt
LateAckStep(j) ==
    /\ pc = "send_command"
    /\ j \in 1..Len(txlog)
    /\ SendAttempt(FromBox(AckReply(resp_command, txlog[j][9])))

\* the step counts as a failed attempt: an attempt is used up and the loop
\* goes on to the next one, if there is one left
FailedAttemptStep ==
    /\ Len(txlog') = Len(txlog) + 1
    /\ firstAck' = firstAck
    /\ IF retry + 1 < self.tx_retries
       THEN pc' = "send_command" /\ retry' = retry + 1
       ELSE pc' = "idle"

\* C34 as stated: a well-formed acknowledgement that carries the sequence
\* byte of an earlier attempt of the same send_command call never ends the
\* retry loop and uses up the attempt.
C34_LateAckRejected ==
    [][\A j \in 1..Len(txlog) : LateAckStep(j) => FailedAttemptStep]_vars

\* C34 amended: a well-formed acknowledgement that carries the sequence
\* byte of an earlier attempt of the same call, and not that of the frame
\* just sent, never ends the retry loop and uses up the attempt.  (The two
\* bytes are equal when the earlier attempt is 256 attempts back.)
C34_LateAckRejectedUnlessAliased ==
    [][\A j \in 1..Len(txlog) :
          (LateAckStep(j) /\ txlog[j][9] # self.ibox_seq) => FailedAttemptStep]_vars

C34_Witness ==
    /\ op = "send_command" /\ pc = "send_command"
    /\ retry >= 2
    /\ ~allTimeout
    /\ firstAck = 0
    /\ Len(txlog) = retry

\* C35: the sequence number is always in 0..255, and a Connected client
\* has its socket and both session ids in 0..255.
C35_SessionInvariant ==
    /\ self.ibox_seq \in 0..255
    /\ self.ibox_connected =>
           /\ self.sock_server
           /\ self.ibox_session_id1 \in 0..255
           /\ self.ibox_session_id2 \in 0..255

C35_Witness ==
    /\ op = "send_command"
    /\ self.ibox_connected /\ self.sock_server
    /\ self.ibox_session_id1 = 0
    /\ self.ibox_session_id2 = 255
    /\ nframes = 256
    /\ txlog[256][9] = 255
    /\ self.ibox_seq = 0

\* the session ids a client holds
SessionIds(s) == <<s.ibox_session_id1, s.ibox_session_id2>>

\* C36, one step.  The ids are written by connect only: set to -1, with
\* the session Disconnected, when connect starts, and to bytes 19 and 20
\* of the reply when connect accepts one, which is the only step that makes
\* the session Connected.  A step that sends a command frame is taken on a
\* Connected session, and bytes 5 and 6 of the frame are the ids held, both
\* in 0..255.
C36_Step ==
    /\ SessionIds(self') # SessionIds(self) => op' = "connect"
    /\ (pc = "idle" /\ op' = "connect") =>
           (SessionIds(self') = <<-1, -1>> /\ ~self'.ibox_connected)
    /\ (pc = "connect" /\ SessionIds(self') # SessionIds(self)) =>
           self'.ibox_connected
    /\ (~self.ibox_connected /\ self'.ibox_connected) =>
           /\ pc = "connect"
           /\ Len(rx22') = 22
           /\ SessionIds(self') = <<rx22'[20], rx22'[21]>>
    /\ (op' = "send_command" /\ Len(txlog') = Len(txlog) + 1) =>
           LET f == txlog'[Len(txlog')]
           IN  /\ self.ibox_connected
               /\ <<f[6], f[7]>> = SessionIds(self)
               /\ f[6] \in 0..255 /\ f[7] \in 0..255

\* C36: every command frame sent carries the session ids stored by the
\* latest successful connect, never those of an earlier session nor -1.
C36_FramesCarrySessionIds == [][C36_Step]_vars

C36_Witness ==
    /\ op = "send_command"
    /\ call.name = "white"
    /\ Len(txlog) >= 1
    /\ <<txlog[1][6], txlog[1][7]>> = <<17, 0>>
    /\ txlog[1][9] = 1

\* C37, the defaults held: a zone in 0..4 and a lamp type in 0..255
C37_DefaultsInRange ==
    /\ self.zone \in 0..4
    /\ self.lamp_type \in 0..255

\* C37, one assignment: a zone outside 0..4 raises and leaves the zone as
\* it was, a zone in 0..4 is stored; a lamp type is stored as the value in
\* 0..255 that differs from it by a multiple of 256, and does not raise.
C37_Step ==
    /\ \A z \in SetterZones :
           SetZone(z) =>
               IF z \in 0..4
               THEN ~raised' /\ self'.zone = z
               ELSE raised' /\ self'.zone = self.zone
    /\ \A t \in SetterLampTypes :
           SetLampType(t) =>
               /\ ~raised'
               /\ \E k \in -1..1 : self'.lamp_type = t + 256 * k
    /\ self'.zone # self.zone => op' = "zone"
    /\ self'.lamp_type # self.lamp_type => op' = "lamp_type"

\* C37: after any sequence of assignments through the zone and lamp_type
\* setters the default zone is in 0..4 and the default lamp type in 0..255;
\* a zone outside 0..4 raises and is not stored, a lamp type is stored
\* modulo 256.
C37_SettersKeepRange ==
    /\ []C37_DefaultsInRange
    /\ [][C37_Step]_vars

C37_Witness ==
    /\ op = "zone" /\ raised
    /\ self.zone = 4
    /\ pre.zone = 4
    /\ self.lamp_type = 255

====
